---- MODULE Spec2Model ----
(***************************************************************************)
(* Model of jupyter_cms/fetches.py: the URL handlers (NBViewerHandler,     *)
(* GitHubHandler), the dispatch in FetchesHandler.post, and the download   *)
(* pipeline of BaseFetcher (get, process_response, check_content_type,     *)
(* check_content_length).                                                  *)
(*                                                                         *)
(* Strings are sequences of tokens.  A token is either a word (several     *)
(* characters, never containing a delimiter) or a single character; the    *)
(* string is the concatenation of its tokens.  Header values of            *)
(* content-length are sequences of single characters.                      *)
(***************************************************************************)
EXTENDS Integers, Sequences, FiniteSets, TLC

VARIABLES
    pc,            \* position of the one fetch: start, dispatched, request, process, stream, done
    url,           \* the URL given by the caller (src_url)
    dstFiles,      \* names of the files present in the destination directory
    upstream,      \* what the remote end and the local disk will do during this fetch
    entry,         \* the entry point the caller invoked
    handler,       \* fetcher class selected by FetchesHandler.post ("none" before)
    fetchUrl,      \* URL handed to requests.get by BaseFetcher.get
    requestsIssued,\* number of HTTP requests issued
    respObtained,  \* requests.get returned a Response object
    respClosed,    \* Response.close() has been called
    headersRead,   \* response headers examined so far
    pos,           \* number of items taken from resp.iter_content
    fileOpen,      \* the NamedTemporaryFile is open
    fileData,      \* bytes flushed to the temporary file
    failure,       \* the fault that actually fired: none, connect, mktemp, stream, disk
    outcome        \* what the entry point returned or raised

vars == <<pc, url, dstFiles, upstream, entry, handler, fetchUrl, requestsIssued,
          respObtained, respClosed, headersRead, pos, fileOpen, fileData,
          failure, outcome>>

----------------------------------------------------------------------------
(* Bounds *)

MaxSegs == 6
MaxChunks == 2

----------------------------------------------------------------------------
(* Generic string helpers (Python str/list semantics on token sequences) *)

Min(a, b) == IF a < b THEN a ELSE b

\* s[i:j] with Python's 0-based, clamped slice bounds (0 <= i, 0 <= j)
PySlice(s, i, j) ==
    IF i >= Min(j, Len(s)) THEN <<>> ELSE SubSeq(s, i + 1, Min(j, Len(s)))

\* s[i:]
PySliceFrom(s, i) == PySlice(s, i, Len(s))

\* s.startswith(p)
StartsWith(s, p) == Len(s) >= Len(p) /\ SubSeq(s, 1, Len(p)) = p

\* index of the first token of s that is in D, or Len(s)+1
RECURSIVE FirstIn(_, _, _)
FirstIn(s, D, i) ==
    IF i > Len(s) THEN i
    ELSE IF s[i] \in D THEN i ELSE FirstIn(s, D, i + 1)

\* s.split('/'): always at least one (possibly empty) segment
RECURSIVE Split(_)
Split(s) ==
    LET i == FirstIn(s, {"/"}, 1) IN
    IF i > Len(s) THEN <<s>>
    ELSE <<SubSeq(s, 1, i - 1)>> \o Split(SubSeq(s, i + 1, Len(s)))

\* '/'.join(segs)
RECURSIVE Join(_)
Join(segs) ==
    IF Len(segs) = 0 THEN <<>>
    ELSE IF Len(segs) = 1 THEN segs[1]
    ELSE segs[1] \o <<"/">> \o Join(Tail(segs))

\* concatenation of a sequence of byte strings
RECURSIVE Concat(_)
Concat(ss) == IF Len(ss) = 0 THEN <<>> ELSE ss[1] \o Concat(Tail(ss))

----------------------------------------------------------------------------
(* urlparse.urlparse(url): scheme, netloc and path of a URL *)

urlparse(u) ==
    LET c      == FirstIn(u, {":"}, 1)
        hasSch == c <= Len(u) /\ c > 1
        scheme == IF hasSch THEN SubSeq(u, 1, c - 1) ELSE <<>>
        r1     == IF hasSch THEN SubSeq(u, c + 1, Len(u)) ELSE u
        hasNet == StartsWith(r1, <<"/", "/">>)
        r2     == IF hasNet THEN SubSeq(r1, 3, Len(r1)) ELSE r1
        e      == IF hasNet THEN FirstIn(r2, {"/", "?", "#"}, 1) ELSE 1
        netloc == SubSeq(r2, 1, e - 1)
        r3     == SubSeq(r2, e, Len(r2))
        f      == FirstIn(r3, {"#"}, 1)
        r4     == SubSeq(r3, 1, f - 1)
        q      == FirstIn(r4, {"?"}, 1)
    IN [scheme |-> scheme, netloc |-> netloc, path |-> SubSeq(r4, 1, q - 1)]

\* url_parts.path.split('/')
PathSegs(u) == Split(urlparse(u).path)

----------------------------------------------------------------------------
(* re.match(regex, src_url) for the three patterns of __fetchers.  A       *)
(* pattern is a set of alternatives (the optional groups expanded), each a *)
(* sequence of literal tokens and ANY (an unescaped '.'), followed by the  *)
(* trailing '.*' which matches every rest.                                 *)

ANY == "<any>"
SingleChar == {".", "/", "?", "#", ":", "-"}

TokMatch(p, t) == IF p = ANY THEN t \in SingleChar ELSE p = t

PrefixMatch(pat, s) ==
    /\ Len(s) >= Len(pat)
    /\ \A i \in 1..Len(pat) : TokMatch(pat[i], s[i])

re_match(regex, s) == \E pat \in regex : PrefixMatch(pat, s)

\* r'^http://nbviewer.ipython.org/.*'
NBViewerRegex ==
    { <<"http", ":", "/", "/", "nbviewer", ANY, "ipython", ANY, "org", "/">> }

\* r'^https?://(gist\.)?github.com/.*'
GitHubRegex ==
    { <<s, ":", "/", "/">> \o g \o <<"github", ANY, "com", "/">> :
        s \in {"http", "https"}, g \in {<<>>, <<"gist", ".">>} }

\* r'.*'
CatchAllRegex == { <<>> }

\* the rule table
fetchers ==
    << [cls |-> "NBViewerHandler", regex |-> NBViewerRegex],
       [cls |-> "GitHubHandler",   regex |-> GitHubRegex],
       [cls |-> "BaseFetcher",     regex |-> CatchAllRegex] >>

\* for fetcher_cls, regex in table: if match: break / else: BaseFetcher
RECURSIVE ScanFrom(_, _, _)
ScanFrom(table, u, i) ==
    IF i > Len(table) THEN "BaseFetcher"
    ELSE IF re_match(table[i].regex, u) THEN table[i].cls
    ELSE ScanFrom(table, u, i + 1)

FirstMatch(u) == ScanFrom(fetchers, u, 1)

\* Names bound at module level once the module is imported
ModuleGlobals ==
    { <<"BaseFetcher">>, <<"NBViewerHandler">>, <<"GitHubHandler">>,
      <<"__", "fetchers">>, <<"FetchesHandler">>,
      <<"load_jupyter_server_extension">>,
      <<"web">>, <<"gen">>, <<"requests">>, <<"tempfile">>, <<"re">>,
      <<"os">>, <<"urlparse">> }

\* Python's private-name mangling of an identifier that occurs textually
\* inside the body of class cls
Mangle(cls, id) ==
    IF Len(id) >= 2 /\ id[1] = "__" /\ id[Len(id)] # "__"
    THEN <<"_", cls>> \o id
    ELSE id

----------------------------------------------------------------------------
(* Results of a call: a return value or the exception that left it *)

NoOutcome == [kind |-> "none", status |-> 0, url |-> <<>>, path |-> <<>>]

\* web.HTTPError(status, message); u is the URL the message quotes (<<>> if none)
HTTPError(status, u) ==
    [kind |-> "HTTPError", status |-> status, url |-> u, path |-> <<>>]

\* any other exception type leaving the call
Raised(exc) == [kind |-> exc, status |-> 0, url |-> <<>>, path |-> <<>>]

Returned(name) == [kind |-> "return", status |-> 0, url |-> <<>>, path |-> name]

----------------------------------------------------------------------------
(* NBViewerHandler.get and GitHubHandler.get: the URL rewriting *)

GistPrefix ==
    <<"https", ":", "/", "/", "gist", ".", "githubusercontent", ".", "com", "/">>
RawPrefix ==
    <<"https", ":", "/", "/", "raw", ".", "githubusercontent", ".", "com", "/">>
HttpPrefix == <<"http", ":", "/", "/">>

\* the rewritten URL as an outcome-shaped record of kind "url"
Rewritten(u) == [kind |-> "url", status |-> 0, url |-> u, path |-> <<>>]

\* variant: the github slice taken one segment too long
NBViewerRewrite_slice(u) ==
    LET path_segs == PathSegs(u) IN
    IF Len(path_segs) < 2 THEN Raised("IndexError")
    ELSE LET kind == path_segs[2] IN
         IF kind = <<"gist">>
         THEN Rewritten(GistPrefix \o Join(PySliceFrom(path_segs, 2)) \o <<"/", "raw">>)
         ELSE IF kind = <<"github">>
         THEN Rewritten(RawPrefix \o Join(PySlice(path_segs, 2, 5)) \o <<"/">>
                          \o Join(PySliceFrom(path_segs, 5)))
         ELSE IF kind = <<"url">>
         THEN Rewritten(HttpPrefix \o Join(PySliceFrom(path_segs, 2)))
         ELSE HTTPError(400, <<>>)

NBViewerRewrite(u) ==
    LET path_segs == PathSegs(u) IN
    IF Len(path_segs) < 2 THEN Raised("IndexError")
    ELSE LET kind == path_segs[2] IN
         IF kind = <<"gist">>
         THEN Rewritten(GistPrefix \o Join(PySliceFrom(path_segs, 2)) \o <<"/", "raw">>)
         ELSE IF kind = <<"github">>
         THEN Rewritten(RawPrefix \o Join(PySlice(path_segs, 2, 4)) \o <<"/">>
                          \o Join(PySliceFrom(path_segs, 5)))
         ELSE IF kind = <<"url">>
         THEN Rewritten(HttpPrefix \o Join(PySliceFrom(path_segs, 2)))
         ELSE HTTPError(400, <<>>)

\* variant: the length test off by one
GitHubRewrite_len(u) ==
    LET path_segs == PathSegs(u)
        site      == urlparse(u).netloc
    IN
    IF Len(path_segs) > 1
    THEN IF site = <<"gist", ".", "github", ".", "com">>
         THEN Rewritten(GistPrefix \o Join(PySlice(path_segs, 1, 3)) \o <<"/", "raw">>)
         ELSE IF site = <<"github", ".", "com">>
         THEN Rewritten(RawPrefix \o Join(PySlice(path_segs, 1, 3)) \o <<"/">>
                          \o Join(PySliceFrom(path_segs, 4)))
         ELSE HTTPError(400, u)
    ELSE HTTPError(400, u)

GitHubRewrite(u) ==
    LET path_segs == PathSegs(u)
        site      == urlparse(u).netloc
    IN
    IF Len(path_segs) > 2
    THEN IF site = <<"gist", ".", "github", ".", "com">>
         THEN Rewritten(GistPrefix \o Join(PySlice(path_segs, 1, 3)) \o <<"/", "raw">>)
         ELSE IF site = <<"github", ".", "com">>
         THEN Rewritten(RawPrefix \o Join(PySlice(path_segs, 1, 3)) \o <<"/">>
                          \o Join(PySliceFrom(path_segs, 4)))
         ELSE HTTPError(400, u)
    ELSE HTTPError(400, u)

----------------------------------------------------------------------------
(* Validation policy of BaseFetcher *)

supported_content_types ==
    { <<"text", "/", "plain">>, <<"text", "/", "csv">>, <<"application", "/", "json">> }
max_content_length == 20480000

\* a header lookup: response.headers.get(name, None)
NoHeader == [present |-> FALSE, val |-> <<>>]
Hdr(v) == [present |-> TRUE, val |-> v]

\* resp.ok of requests: raise_for_status() does not raise
Ok(status) == ~(400 <= status /\ status < 600)

\* variant: the test for a missing header is lost
check_content_type_present_only(content_type) ==
    /\ content_type.present
    /\ ~(\E p \in supported_content_types : StartsWith(content_type.val, p))

\* TRUE iff check_content_type raises HTTPError(415)
check_content_type(content_type) ==
    \/ ~content_type.present
    \/ ~(\E p \in supported_content_types : StartsWith(content_type.val, p))

Digits == {"0", "1", "2", "3", "4", "5", "6", "7", "8", "9"}
DigitVal ==
    [d \in Digits |->
        CASE d = "0" -> 0 [] d = "1" -> 1 [] d = "2" -> 2 [] d = "3" -> 3
          [] d = "4" -> 4 [] d = "5" -> 5 [] d = "6" -> 6 [] d = "7" -> 7
          [] d = "8" -> 8 [] d = "9" -> 9]

RECURSIVE DigitsValue(_, _)
DigitsValue(s, acc) ==
    IF Len(s) = 0 THEN acc ELSE DigitsValue(Tail(s), 10 * acc + DigitVal[s[1]])

\* int(text): optional sign, then one or more decimal digits; ValueError
\* otherwise (ok = FALSE).  Header values arrive with surrounding blanks removed.
int(text) ==
    LET signed == Len(text) > 0 /\ text[1] \in {"-", "+"}
        body   == IF signed THEN Tail(text) ELSE text
        valid  == Len(body) > 0 /\ \A i \in 1..Len(body) : body[i] \in Digits
        mag    == IF valid THEN DigitsValue(body, 0) ELSE 0
    IN [ok |-> valid,
        val |-> IF signed /\ text[1] = "-" THEN 0 - mag ELSE mag]

\* variant: >= in place of >
check_content_length_ge(content_length) ==
    IF ~content_length.present THEN FALSE
    ELSE IF ~int(content_length.val).ok THEN FALSE
    ELSE int(content_length.val).val >= max_content_length

\* TRUE iff check_content_length raises HTTPError(413)
check_content_length(content_length) ==
    IF ~content_length.present THEN FALSE
    ELSE IF ~int(content_length.val).ok THEN FALSE
    ELSE int(content_length.val).val > max_content_length

\* variant: close() only at the end of the block, without closing()
closing_on_return_only(raised) == ~raised

\* contextlib.closing: the response is closed when the with block is left,
\* whether by return or by an exception
closing(raised) == TRUE

\* name of the NamedTemporaryFile created in the destination directory
TmpName == <<"tmp", "1">>

----------------------------------------------------------------------------
(* Inputs: caller URLs *)

Schemes == {"http", "https"}

Hosts ==
    { <<"nbviewer", ".", "ipython", ".", "org">>,
      <<"nbviewer", ".", "ipython", "?", "org">>,
      <<"gist", ".", "github", ".", "com">>,
      <<"github", ".", "com">>,
      <<"github", "-", "com">>,
      <<"example", ".", "com">> }

\* candidates for the first path segment
FirstSegs == { <<"gist">>, <<"github">>, <<"url">>, <<"foo">>, <<"user">>, <<>> }

\* the non-empty candidate for the n-th path segment, n >= 2
SegNames ==
    << <<"user">>, <<"repo">>, <<"blob">>, <<"branch">>, <<"nb", ".", "ipynb">>,
       <<"sub">>, <<"deep">>, <<"leaf">> >>
SegName(n) == SegNames[((n - 2) % Len(SegNames)) + 1]

RECURSIVE PathsOfLen(_)
PathsOfLen(n) ==
    IF n = 0 THEN { <<>> }
    ELSE IF n = 1 THEN { <<f>> : f \in FirstSegs }
    ELSE { Append(p, s) : p \in PathsOfLen(n - 1), s \in { SegName(n), <<>> } }

\* the path text of a list of segments: '/' before each one
RECURSIVE PathText(_)
PathText(segs) ==
    IF Len(segs) = 0 THEN <<>> ELSE <<"/">> \o segs[1] \o PathText(Tail(segs))

URLs ==
    { <<s, ":", "/", "/">> \o h \o PathText(p) :
        s \in Schemes, h \in Hosts, p \in UNION { PathsOfLen(n) : n \in 0..MaxSegs } }

SmallURLs ==
    { <<"http", ":", "/", "/", "nbviewer", ".", "ipython", ".", "org", "/",
        "gist", "/", "user", "/", "repo">>,
      <<"https", ":", "/", "/", "example", ".", "com", "/", "data", ".", "csv">> }

----------------------------------------------------------------------------
(* Inputs: behaviour of the remote end and of the local disk *)

Statuses == {200, 304, 404, 503}

ContentTypes ==
    { NoHeader,
      Hdr(<<"text", "/", "plain">>),
      Hdr(<<"text", "/", "plain", ";", "charset=utf-8">>),
      Hdr(<<"text", "/", "html">>),
      Hdr(<<"text">>),
      Hdr(<<"text", "/", "csv">>),
      Hdr(<<"application", "/", "json">>) }

\* str(n) for n >= 0
RECURSIVE DecimalStr(_)
DecimalStr(n) ==
    LET d == CHOOSE c \in Digits : DigitVal[c] = n % 10 IN
    IF n < 10 THEN <<d>> ELSE Append(DecimalStr(n \div 10), d)

ContentLengths ==
    { NoHeader,
      Hdr(<<>>),
      Hdr(<<"1", "2", "a">>),
      Hdr(<<"-", "1">>),
      Hdr(DecimalStr(0)),
      Hdr(DecimalStr(max_content_length)),
      Hdr(DecimalStr(max_content_length + 1)),
      Hdr(DecimalStr(999999999)) }

\* a chunk yielded by iter_content: a byte string, possibly empty
Chunks == { <<>>, <<"a">>, <<"b", "c">> }

ChunkSeqs == UNION { [1..n -> Chunks] : n \in 0..MaxChunks }

\* At most one fault per fetch:
\*   connect   requests.get raises a RequestException
\*   mktemp    NamedTemporaryFile raises (directory missing or not writable)
\*   stream/k  taking the k-th item from the body raises a RequestException
\*   disk/k    writing the k-th chunk raises an IOError
Faults(chunks) ==
    { [kind |-> "none", at |-> 0], [kind |-> "connect", at |-> 0],
      [kind |-> "mktemp", at |-> 0] }
    \cup { [kind |-> "stream", at |-> k] : k \in 1..(Len(chunks) + 1) }
    \cup { [kind |-> "disk", at |-> k] : k \in { j \in 1..Len(chunks) : chunks[j] # <<>> } }

Upstream(status, reason, ctype, clen, chunks, fault) ==
    [status |-> status, reason |-> reason, ctype |-> ctype, clen |-> clen,
     chunks |-> chunks, fault |-> fault]

\* u is one of the behaviours: the reason phrase (reason = TRUE: non-empty)
\* only matters for a response that is not ok
IsUpstream(u) ==
    \E ch \in ChunkSeqs, st \in Statuses, rs \in BOOLEAN,
       ct \in ContentTypes, cl \in ContentLengths :
        /\ ~Ok(st) \/ rs
        /\ \E f \in Faults(ch) : u = Upstream(st, rs, ct, cl, ch, f)

SmallUpstreams ==
    { Upstream(200, TRUE, Hdr(<<"text", "/", "plain">>), NoHeader, <<<<"a">>>>,
               [kind |-> "none", at |-> 0]),
      Upstream(404, TRUE, NoHeader, NoHeader, <<>>, [kind |-> "none", at |-> 0]),
      Upstream(200, TRUE, Hdr(<<"text", "/", "csv">>), NoHeader, <<>>,
               [kind |-> "connect", at |-> 0]) }

----------------------------------------------------------------------------
(* Initial states *)

InitRest ==
    /\ pc = "start"
    /\ dstFiles = {}
    /\ entry = "none"
    /\ handler = "none"
    /\ fetchUrl = <<>>
    /\ requestsIssued = 0
    /\ respObtained = FALSE
    /\ respClosed = FALSE
    /\ headersRead = {}
    /\ pos = 0
    /\ fileOpen = FALSE
    /\ fileData = <<>>
    /\ failure = "none"
    /\ outcome = NoOutcome

\* few URLs, every upstream behaviour
Init == url \in SmallURLs /\ IsUpstream(upstream) /\ InitRest

\* every URL, few upstream behaviours
InitURL == url \in URLs /\ upstream \in SmallUpstreams /\ InitRest

----------------------------------------------------------------------------
(* Actions *)

\* the caller invokes cls directly, or FetchesHandler.post dispatched to it
Invoked(cls) ==
    \/ pc = "start" /\ entry' = cls
    \/ pc = "dispatched" /\ handler = cls /\ entry' = entry

\* the call ends with outcome o
Finish(o) == pc' = "done" /\ outcome' = o

\* FetchesHandler.post: look the rule table up and select the fetcher
FetchesHandler_post ==
    /\ pc = "start"
    /\ entry' = "FetchesHandler"
    /\ IF Mangle("FetchesHandler", <<"__", "fetchers">>) \in ModuleGlobals
       THEN /\ handler' = FirstMatch(url)
            /\ pc' = "dispatched"
            /\ outcome' = outcome
       ELSE /\ handler' = handler
            /\ Finish(Raised("NameError"))
    /\ UNCHANGED <<url, dstFiles, upstream, fetchUrl, requestsIssued, respObtained,
                   respClosed, headersRead, pos, fileOpen, fileData, failure>>

\* a handler rewrites the URL and delegates to BaseFetcher.get, or raises
Normalize(r) ==
    /\ IF r.kind = "url"
       THEN /\ fetchUrl' = r.url
            /\ pc' = "request"
            /\ outcome' = outcome
       ELSE /\ fetchUrl' = fetchUrl
            /\ Finish(r)
    /\ UNCHANGED <<url, dstFiles, upstream, handler, requestsIssued, respObtained,
                   respClosed, headersRead, pos, fileOpen, fileData, failure>>

NBViewerHandler_get == Invoked("NBViewerHandler") /\ Normalize(NBViewerRewrite(url))

GitHubHandler_get == Invoked("GitHubHandler") /\ Normalize(GitHubRewrite(url))

\* BaseFetcher.get called with the caller's URL as it is
BaseFetcher_get == Invoked("BaseFetcher") /\ Normalize(Rewritten(url))

\* BaseFetcher.get: requests.get(url, timeout, stream=True, verify)
requests_get ==
    /\ pc = "request"
    /\ requestsIssued' = requestsIssued + 1
    /\ IF upstream.fault.kind = "connect"
       THEN /\ failure' = "connect"
            /\ respObtained' = respObtained
            /\ Finish(HTTPError(400, fetchUrl))
       ELSE /\ failure' = failure
            /\ respObtained' = TRUE
            /\ pc' = "process"
            /\ outcome' = outcome
    /\ UNCHANGED <<url, dstFiles, upstream, entry, handler, fetchUrl, respClosed,
                   headersRead, pos, fileOpen, fileData>>

\* process_response up to the creation of the temporary file
process_response ==
    /\ pc = "process"
    /\ IF ~Ok(upstream.status)
       THEN \* resp.reason or resp.text: an empty reason makes the body be read
            /\ IF ~upstream.reason /\ upstream.fault.kind = "stream"
               THEN failure' = "stream" /\ Finish(Raised("RequestException"))
               ELSE failure' = failure /\ Finish(HTTPError(upstream.status, fetchUrl))
            /\ respClosed' = closing(TRUE)
            /\ UNCHANGED <<headersRead, dstFiles, fileOpen>>
       ELSE IF check_content_type(upstream.ctype)
       THEN /\ headersRead' = headersRead \cup {"content-type"}
            /\ Finish(HTTPError(415, <<>>))
            /\ respClosed' = closing(TRUE)
            /\ UNCHANGED <<failure, dstFiles, fileOpen>>
       ELSE IF check_content_length(upstream.clen)
       THEN /\ headersRead' = headersRead \cup {"content-type", "content-length"}
            /\ Finish(HTTPError(413, <<>>))
            /\ respClosed' = closing(TRUE)
            /\ UNCHANGED <<failure, dstFiles, fileOpen>>
       ELSE IF upstream.fault.kind = "mktemp"
       THEN /\ headersRead' = headersRead \cup {"content-type", "content-length"}
            /\ failure' = "mktemp"
            /\ Finish(Raised("OSError"))
            /\ respClosed' = closing(TRUE)
            /\ UNCHANGED <<dstFiles, fileOpen>>
       ELSE /\ headersRead' = headersRead \cup {"content-type", "content-length"}
            /\ dstFiles' = dstFiles \cup {TmpName}
            /\ fileOpen' = TRUE
            /\ pc' = "stream"
            /\ UNCHANGED <<failure, outcome, respClosed>>
    /\ UNCHANGED <<url, upstream, entry, handler, fetchUrl, requestsIssued,
                   respObtained, pos, fileData>>

\* one iteration of: for chunk in resp.iter_content(8192): write, flush
iter_content ==
    /\ pc = "stream"
    /\ LET k == pos + 1 IN
       /\ \/ k <= Len(upstream.chunks)
          \/ upstream.fault.kind = "stream" /\ upstream.fault.at = k
       /\ IF upstream.fault.kind = "stream" /\ upstream.fault.at = k
          THEN /\ failure' = "stream"
               /\ Finish(Raised("RequestException"))
               /\ fileOpen' = FALSE
               /\ respClosed' = closing(TRUE)
               /\ UNCHANGED <<pos, fileData>>
          ELSE IF upstream.chunks[k] # <<>> /\ upstream.fault.kind = "disk"
                  /\ upstream.fault.at = k
          THEN /\ failure' = "disk"
               /\ Finish(Raised("IOError"))
               /\ fileOpen' = FALSE
               /\ respClosed' = closing(TRUE)
               /\ UNCHANGED <<pos, fileData>>
          ELSE /\ pos' = k
               /\ fileData' = fileData \o upstream.chunks[k]
               /\ UNCHANGED <<pc, outcome, failure, fileOpen, respClosed>>
    /\ UNCHANGED <<url, dstFiles, upstream, entry, handler, fetchUrl, requestsIssued,
                   respObtained, headersRead>>

\* the body is exhausted: both with blocks are left and the name is returned
return_name ==
    /\ pc = "stream"
    /\ pos = Len(upstream.chunks)
    /\ ~(upstream.fault.kind = "stream" /\ upstream.fault.at = pos + 1)
    /\ fileOpen' = FALSE
    /\ respClosed' = closing(FALSE)
    /\ Finish(Returned(TmpName))
    /\ UNCHANGED <<url, dstFiles, upstream, entry, handler, fetchUrl, requestsIssued,
                   respObtained, headersRead, pos, fileData, failure>>

Next ==
    \/ FetchesHandler_post
    \/ NBViewerHandler_get
    \/ GitHubHandler_get
    \/ BaseFetcher_get
    \/ requests_get
    \/ process_response
    \/ iter_content
    \/ return_name

Spec == Init /\ [][Next]_vars

SpecURL == InitURL /\ [][Next]_vars

----------------------------------------------------------------------------
(* Properties *)

\* process_response has run on a response object
Processed == respObtained /\ pc \in {"stream", "done"}

\* the suffix of s from its i-th element (1-based), empty when there is none
From(s, i) == IF i > Len(s) THEN <<>> ELSE SubSeq(s, i, Len(s))

\* the elements i..j of s that exist (1-based)
Range(s, i, j) == IF i > Min(j, Len(s)) THEN <<>> ELSE SubSeq(s, i, Min(j, Len(s)))

TypeAllowed(ct) ==
    ct.present /\ \E p \in supported_content_types : StartsWith(ct.val, p)

\* C1: an ok response whose content-type is absent or outside the allowed
\* prefixes ends in HTTPError 415, whatever the body, and no temporary file
\* exists in the destination directory.
C1_UnsupportedTypeRejected ==
    (Processed /\ Ok(upstream.status) /\ ~TypeAllowed(upstream.ctype))
        => /\ pc = "done"
           /\ outcome = HTTPError(415, <<>>)
           /\ dstFiles = {}
           /\ fileData = <<>>
           /\ ~fileOpen

C1_Witness ==
    /\ pc = "done"
    /\ outcome.status = 415
    /\ upstream.ctype = Hdr(<<"text", "/", "html">>)
    /\ Len(upstream.chunks) = MaxChunks
    /\ upstream.chunks[1] # <<>>

\* the declared length is present, numeric and above the ceiling
DeclaredTooLarge(cl) ==
    cl.present /\ int(cl.val).ok /\ int(cl.val).val > 20480000

\* C2: for an ok response with an allowed content-type, HTTPError 413 is
\* raised exactly when content-length is present, numeric and above the
\* ceiling; otherwise the fetch goes on to the temporary file; and when 413
\* is raised nothing has been written and no temporary file exists.
C2_LengthCheck ==
    (Processed /\ Ok(upstream.status) /\ TypeAllowed(upstream.ctype))
        => /\ (outcome = HTTPError(413, <<>>)) <=> DeclaredTooLarge(upstream.clen)
           /\ DeclaredTooLarge(upstream.clen)
                => pc = "done" /\ dstFiles = {} /\ fileData = <<>> /\ ~fileOpen
           /\ ~DeclaredTooLarge(upstream.clen)
                => TmpName \in dstFiles \/ failure = "mktemp"

C2_Witness ==
    /\ pc = "done"
    /\ outcome.status = 413
    /\ upstream.clen = Hdr(<<"2", "0", "4", "8", "0", "0", "0", "1">>)
    /\ upstream.chunks # <<>>

\* C3: every transport failure that fired, at connect time or while the
\* body is read, ends the fetch in HTTPError 400 quoting the URL.
C3_TransportFailureIs400 ==
    (pc = "done" /\ failure \in {"connect", "stream"})
        => outcome = HTTPError(400, fetchUrl)

\* C4: a finished fetch either returned the path of an existing file that
\* holds the whole body, or failed without leaving a file.
C4_FileCompleteOrAbsent ==
    pc = "done"
        => \/ /\ outcome = Returned(TmpName)
              /\ TmpName \in dstFiles
              /\ fileData = Concat(upstream.chunks)
           \/ /\ outcome.kind # "return"
              /\ dstFiles = {}

\* C5: FetchesHandler.post never fails in dispatch and selects the fetcher
\* of the first rule, in table order, whose pattern matches the URL.
C5_DispatchTotal ==
    entry = "FetchesHandler"
        => /\ outcome.kind # "NameError"
           /\ handler = FirstMatch(url)

\* an expected path segment is missing from a URL routed to a handler
MissingSegment(cls, u) ==
    LET segs == PathSegs(u) IN
    IF cls = "NBViewerHandler"
    THEN /\ re_match(NBViewerRegex, u)
         /\ \/ Len(segs) < 2
            \/ Len(segs) >= 2 /\ segs[2] \in {<<"gist">>, <<"url">>}
                  /\ Join(From(segs, 3)) = <<>>
            \/ Len(segs) >= 2 /\ segs[2] = <<"github">> /\ Len(segs) < 7
    ELSE /\ re_match(GitHubRegex, u)
         /\ urlparse(u).netloc = <<"github", ".", "com">>
         /\ Len(segs) < 6

\* C6: a URL routed to NBViewerHandler.get or GitHubHandler.get that lacks
\* an expected path segment is rejected with HTTPError 400; no index fault,
\* no rewritten URL handed to BaseFetcher.get.
C6_MissingSegmentIs400 ==
    (entry \in {"NBViewerHandler", "GitHubHandler"} /\ MissingSegment(entry, url))
        => /\ outcome.kind = "HTTPError"
           /\ outcome.status = 400
           /\ fetchUrl = <<>>
           /\ requestsIssued = 0

\* C7: a response whose status is not 2xx ends in an HTTPError carrying the
\* upstream status, raised before any header is examined and before a
\* temporary file is created (stated for the fetches in which no fault fired).
C7_Non2xxIsUpstreamError ==
    (Processed /\ failure = "none" /\ ~(upstream.status \in 200..299))
        => /\ pc = "done"
           /\ outcome.kind = "HTTPError"
           /\ outcome.status = upstream.status
           /\ headersRead = {}
           /\ dstFiles = {}

\* C8: when a fetch that obtained a response object has returned or raised,
\* the response has been closed.
C8_ResponseClosed ==
    (pc = "done" /\ respObtained) => respClosed

C8_Witness ==
    /\ pc = "done"
    /\ respObtained
    /\ respClosed
    /\ failure = "disk"
    /\ fileData # <<>>

\* C9: for an nbviewer URL with path segments segs (split on '/'),
\* NBViewerHandler.get requests gist.githubusercontent.com/<segs[2:]>/raw for
\* kind gist, raw.githubusercontent.com/<segs[2:4]>/<segs[5:]> for kind
\* github, http://<segs[2:]> for kind url, and raises HTTPError 400 without
\* any request for every other kind.
C9_NBViewerRewrite ==
    LET segs == PathSegs(url) IN
    (entry = "NBViewerHandler" /\ re_match(NBViewerRegex, url) /\ Len(segs) >= 2)
        => IF segs[2] = <<"gist">>
           THEN fetchUrl = GistPrefix \o Join(From(segs, 3)) \o <<"/", "raw">>
           ELSE IF segs[2] = <<"github">>
           THEN /\ fetchUrl = RawPrefix \o Join(Range(segs, 3, 4)) \o <<"/">>
                                \o Join(From(segs, 6))
                /\ Len(segs) >= 7 =>
                     fetchUrl = RawPrefix \o segs[3] \o <<"/">> \o segs[4] \o <<"/">>
                                  \o segs[6] \o <<"/">> \o Join(From(segs, 7))
           ELSE IF segs[2] = <<"url">>
           THEN fetchUrl = HttpPrefix \o Join(From(segs, 3))
           ELSE /\ pc = "done"
                /\ outcome.kind = "HTTPError"
                /\ outcome.status = 400
                /\ fetchUrl = <<>>
                /\ requestsIssued = 0

C9_Witness ==
    /\ entry = "NBViewerHandler"
    /\ url = <<"http", ":", "/", "/", "nbviewer", ".", "ipython", ".", "org", "/",
               "github", "/", "user", "/", "repo", "/", "blob", "/", "branch", "/",
               "nb", ".", "ipynb">>
    /\ fetchUrl = RawPrefix \o <<"user", "/", "repo", "/", "branch", "/", "nb", ".", "ipynb">>
    /\ pc = "done"
    /\ outcome.kind = "return"

\* C10: for a URL matched by the GitHub/Gist rule whose path has more than
\* two segments segs, GitHubHandler.get requests
\* gist.githubusercontent.com/<segs[1:3]>/raw for host gist.github.com and
\* raw.githubusercontent.com/<segs[1:3]>/<segs[4:]> for host github.com; for
\* any other host, or two segments or fewer, it raises HTTPError 400 without
\* any request.
C10_GitHubRewrite ==
    LET segs == PathSegs(url)
        site == urlparse(url).netloc
    IN
    (entry = "GitHubHandler" /\ re_match(GitHubRegex, url))
        => IF Len(segs) > 2 /\ site = <<"gist", ".", "github", ".", "com">>
           THEN /\ fetchUrl = GistPrefix \o Join(Range(segs, 2, 3)) \o <<"/", "raw">>
                /\ Len(segs) = 3 =>
                     fetchUrl = GistPrefix \o segs[2] \o <<"/">> \o segs[3] \o <<"/", "raw">>
           ELSE IF Len(segs) > 2 /\ site = <<"github", ".", "com">>
           THEN fetchUrl = RawPrefix \o Join(Range(segs, 2, 3)) \o <<"/">>
                             \o Join(From(segs, 5))
           ELSE /\ pc = "done"
                /\ outcome.kind = "HTTPError"
                /\ outcome.status = 400
                /\ fetchUrl = <<>>
                /\ requestsIssued = 0

C10_Witness ==
    /\ entry = "GitHubHandler"
    /\ url = <<"https", ":", "/", "/", "gist", ".", "github", ".", "com", "/",
               "user", "/", "user">>
    /\ fetchUrl = GistPrefix \o <<"user", "/", "user", "/", "raw">>
    /\ pc = "done"
    /\ outcome.kind = "return"

====
